---- MODULE Spec2Model ----
(***************************************************************************)
(* A state-machine model of spacy/cli/train.py: the train() command (the   *)
(* validation of its paths, the set-up with the multitask objectives, the  *)
(* epoch loop over the batches of minibatch_by_words with the two          *)
(* module-level schedules, the per-epoch checkpoint / evaluate block, the  *)
(* try/finally final save) and the best-model composer                     *)
(* (_collate_best_model, _find_best, _get_metrics).                        *)
(*                                                                         *)
(* The output directory is a map from directory names to snapshots.  A     *)
(* name is the sequence of its characters, because _find_best breaks ties  *)
(* by comparing paths.  A score is a natural number standing for a float.  *)
(***************************************************************************)
EXTENDS Integers, Sequences, FiniteSets, TLC

VARIABLES
    args,        \* the arguments of train(), fixed for the run
    fs0,         \* output_path when train() was called: exists, dirs
    sched,       \* values drawn from batch_sizes and from dropout_rates
    stream,      \* minibatch_by_words(train_docs, ...) of the current epoch
    steps,       \* the calls made in the current epoch, in order
    out_exists,  \* output_path exists
    fs,          \* output_path: directory name -> snapshot
    pc,          \* position in train()
    exc,         \* "none", "exit1" (sys.exit(1)) or "error" (an exception)
    env_log,     \* the verbosity state set by util.set_env_log
    nlp,         \* the pipeline: built, objectives, begun, ver, view
    device,      \* the active backend, Model.ops
    i,           \* the epoch index of the for loop
    batches,     \* updates made in the current epoch
    nlp_loaded,  \* the pipeline reloaded from the epoch location
    scorer,      \* scorer.scores of the last evaluation
    gpu_wps,     \* throughput locals of the epoch
    cpu_wps,
    meta,        \* the meta dict
    bests,       \* _collate_best_model: component -> winning location
    todo         \* _collate_best_model: components not merged yet

vars == <<args, fs0, sched, stream, steps, out_exists, fs, pc, exc, env_log,
          nlp, device, i, batches, nlp_loaded, scorer, gpu_wps, cpu_wps, meta,
          bests, todo>>

(***************************************************************************)
(* Bounds of the model.                                                    *)
(***************************************************************************)
MaxIter == 2      \* n_iter ranges over 0..MaxIter
MaxScore == 1     \* a metric value ranges over 0..MaxScore
MaxBatches == 1   \* non-empty batches of an epoch range over 1..MaxBatches
MaxDocs == 2      \* examples of an epoch's stream range over 0..MaxDocs
MaxWords == 2     \* words of an example range over 1..MaxWords
DevWords == 2     \* number of words of the development set
Elapsed == 1      \* wall-clock time of one evaluation, in timer units

\* An optional value is <<>> (None, a missing file, a missing key) or <<x>>.
None == <<>>
NoFile == <<>>
Some(x) == <<x>>
Content(f) == f[1]

(***************************************************************************)
(* Directory names and the order of paths.                                 *)
(***************************************************************************)
Ord ==
    ("-" :> 45) @@ ("0" :> 48) @@ ("1" :> 49) @@ ("2" :> 50) @@ ("3" :> 51)
    @@ ("4" :> 52) @@ ("5" :> 53) @@ ("6" :> 54) @@ ("7" :> 55) @@ ("8" :> 56)
    @@ ("9" :> 57) @@ ("a" :> 97) @@ ("b" :> 98) @@ ("d" :> 100)
    @@ ("e" :> 101) @@ ("f" :> 102) @@ ("i" :> 105) @@ ("l" :> 108)
    @@ ("m" :> 109) @@ ("n" :> 110) @@ ("o" :> 111) @@ ("s" :> 115)
    @@ ("t" :> 116)

DigitChar == <<"0", "1", "2", "3", "4", "5", "6", "7", "8", "9">>

RECURSIVE Digits(_)
\* '%d' % n for n >= 0
Digits(n) ==
    IF n < 10 THEN <<DigitChar[n + 1]>>
    ELSE Digits(n \div 10) \o <<DigitChar[(n % 10) + 1]>>

\* 'model%d' % n
ModelName(n) == <<"m", "o", "d", "e", "l">> \o Digits(n)
ModelFinal == <<"m", "o", "d", "e", "l", "-", "f", "i", "n", "a", "l">>
ModelBest == <<"m", "o", "d", "e", "l", "-", "b", "e", "s", "t">>

RECURSIVE StrLess(_, _)
\* s < t for two strings, by code point
StrLess(s, t) ==
    IF t = <<>> THEN FALSE
    ELSE IF s = <<>> THEN TRUE
    ELSE IF Ord[Head(s)] # Ord[Head(t)] THEN Ord[Head(s)] < Ord[Head(t)]
    ELSE StrLess(Tail(s), Tail(t))

RECURSIVE ListLess(_, _)
\* a < b for two lists of numbers
ListLess(a, b) ==
    IF b = <<>> THEN FALSE
    ELSE IF a = <<>> THEN TRUE
    ELSE IF Head(a) # Head(b) THEN Head(a) < Head(b)
    ELSE ListLess(Tail(a), Tail(b))

(***************************************************************************)
(* Metrics and the ranking of epochs.                                      *)
(***************************************************************************)
AllMetrics == {"uas", "las", "ents_p", "ents_r", "ents_f", "tags_acc",
               "token_acc"}

\* _get_metrics as it would be with the parser ranked on uas before las
GetMetricsUasFirst(component) ==
    IF component = "parser" THEN <<"uas", "las", "token_acc">>
    ELSE IF component = "tagger" THEN <<"tags_acc">>
    ELSE IF component = "ner" THEN <<"ents_p", "ents_f", "ents_r">>
    ELSE <<"token_acc">>

_get_metrics(component) ==
    IF component = "parser" THEN <<"las", "uas", "token_acc">>
    ELSE IF component = "tagger" THEN <<"tags_acc">>
    ELSE IF component = "ner" THEN <<"ents_f", "ents_p", "ents_r">>
    ELSE <<"token_acc">>

Range(s) == {s[k] : k \in DOMAIN s}

\* [accs.get(metric, 0.0) for metric in _get_metrics(component)]
Scores(accs, component) ==
    LET metrics == _get_metrics(component)
    IN  [k \in DOMAIN metrics |->
            IF metrics[k] \in DOMAIN accs THEN accs[metrics[k]] ELSE 0]

\* the directories _find_best looks at
Candidates(dir) == {d \in DOMAIN dir : d # ModelFinal}

\* json.load of a missing accuracy.json raises
FindBestRaises(dir) == \E d \in Candidates(dir) : dir[d].acc = NoFile

\* the (scores, epoch_model) pairs of the list accuracies
Accuracies(dir, component) ==
    {[scores |-> Scores(Content(dir[d].acc), component), loc |-> d] :
        d \in Candidates(dir)}

\* PairLess as it would be were equal scores ranked by epoch number: of two
\* names the shorter is the smaller number
PairLessByNumber(p, q) ==
    \/ ListLess(p.scores, q.scores)
    \/ /\ p.scores = q.scores
       /\ \/ Len(p.loc) < Len(q.loc)
          \/ Len(p.loc) = Len(q.loc) /\ StrLess(p.loc, q.loc)

\* p < q for two (scores, epoch_model) tuples
PairLess(p, q) ==
    \/ ListLess(p.scores, q.scores)
    \/ p.scores = q.scores /\ StrLess(p.loc, q.loc)

\* max(accuracies)
MaxPair(accuracies) ==
    CHOOSE p \in accuracies : \A q \in accuracies : q = p \/ PairLess(q, p)

\* the winning location, or None
_find_best(dir, component) ==
    IF Accuracies(dir, component) # {}
    THEN Some(MaxPair(Accuracies(dir, component)).loc)
    ELSE None

(***************************************************************************)
(* The arguments of train() and the initial state.                         *)
(***************************************************************************)
\* the pipelines of the runs of train() that are followed step by step, and
\* the pipelines of the runs whose end state the composer is started from
Pipelines == {<<"tagger">>, <<"tagger", "textcat">>}
CollatePipelines == {<<"parser", "textcat">>, <<"tagger">>, <<"ner">>}
UseGpu == {-1, 0}
MetaFiles == {"none", "missing", "notdict", "dict"}

\* an epoch's examples, each given by its number of words; a stream of n
\* examples of one word makes n batches under a constant target of 1
UnitStreams == {[k \in 1..n |-> 1] : n \in 1..MaxBatches}
Streams == UNION {[1..n -> 1..MaxWords] : n \in 0..MaxDocs}

\* a comma-separated list of objectives, split; <<>> is the option left out
ParserMultitasks == {<<>>, <<"tag">>, <<"dep", "tag">>}
EntityMultitasks == {<<>>, <<"dep">>}
MultitaskPipelines == {<<"tagger", "parser">>, <<"ner">>}

\* batch_from, batch_to and batch_compound are the environment options of
\* lines 28-30
Args ==
    [n_iter : 0..MaxIter, use_gpu : UseGpu, verbose : BOOLEAN,
     pipeline : Pipelines, train_docs : UnitStreams,
     batch_from : {1}, batch_to : {1}, batch_compound : {1},
     parser_multitasks : {<<>>}, entity_multitasks : {<<>>},
     train_exists : BOOLEAN, dev_exists : BOOLEAN, meta_file : MetaFiles]

\* runs that differ in the example stream and the batch-size schedule
TrainerArgs ==
    [n_iter : {MaxIter}, use_gpu : UseGpu, verbose : {FALSE},
     pipeline : {<<"tagger">>}, train_docs : Streams,
     batch_from : 1..MaxWords, batch_to : {2 * MaxWords},
     batch_compound : {1, 2},
     parser_multitasks : {<<>>}, entity_multitasks : {<<>>},
     train_exists : {TRUE}, dev_exists : {TRUE}, meta_file : {"none"}]

\* runs that differ in the multitask options
MultitaskArgs ==
    [n_iter : {0, 1}, use_gpu : UseGpu, verbose : {FALSE},
     pipeline : MultitaskPipelines, train_docs : {<<1>>},
     batch_from : {1}, batch_to : {1}, batch_compound : {1},
     parser_multitasks : ParserMultitasks,
     entity_multitasks : EntityMultitasks,
     train_exists : {TRUE}, dev_exists : {TRUE}, meta_file : {"none"}]

\* the parameters a snapshot holds: the view they were saved under and the
\* number of updates applied
Params(view, ver) == [view |-> view, ver |-> ver]
StaleParams == Params("stale", 0)

\* what Language.to_disk writes for a pipeline
Pipes(pipe_names, params) == [c \in Range(pipe_names) |-> params]

\* directories an earlier run may have left in output_path
StaleBest(pipeline) ==
    [comps |-> Pipes(pipeline, StaleParams), vocab |-> StaleParams,
     acc |-> NoFile,
     meta |-> Some([accuracy |-> None, speed |-> None, name |-> None])]
StaleEpoch(pipeline) ==
    [comps |-> Pipes(pipeline, StaleParams), vocab |-> StaleParams,
     acc |-> Some(("las" :> MaxScore) @@ ("tags_acc" :> 0)),
     meta |-> NoFile]

\* an epoch of an earlier run of more than ten epochs, every metric at the top
StaleTop(pipeline) ==
    [comps |-> Pipes(pipeline, StaleParams), vocab |-> StaleParams,
     acc |-> Some([m \in AllMetrics |-> MaxScore]),
     meta |-> Some([accuracy |-> Some([m \in AllMetrics |-> MaxScore]),
                    speed |-> None, name |-> None])]

EmptyDir == [d \in {} |-> 0]

InitialDirs(pipeline) ==
    {EmptyDir,
     ModelBest :> StaleBest(pipeline),
     ModelName(1) :> StaleEpoch(pipeline)}

\* the state in which train() is called with arguments of the given set
Called(argset) ==
    /\ args \in argset
    /\ out_exists \in BOOLEAN
    /\ fs \in IF out_exists THEN InitialDirs(args.pipeline) ELSE {EmptyDir}
    /\ fs0 = [exists |-> out_exists, dirs |-> fs]
    /\ pc = "start"
    /\ exc = "none"
    /\ env_log = FALSE
    /\ sched = [sizes |-> 0, drops |-> 0]
    /\ stream = [docs |-> <<>>, done |-> TRUE]
    /\ steps = <<>>
    /\ nlp = [built |-> FALSE, pipe_names |-> <<>>, objectives |-> <<>>,
              begun |-> FALSE, ver |-> 0, view |-> "live"]
    /\ device = "cpu"
    /\ i = 0
    /\ batches = 0
    /\ nlp_loaded = None
    /\ scorer = None
    /\ gpu_wps = None
    /\ cpu_wps = None
    /\ meta = [accuracy |-> None, speed |-> None, name |-> None]
    /\ bests = <<>>
    /\ todo = {}

Init == Called(Args)

\* what output_path may hold when the composer is started on its own
CollateDirs(pipeline) ==
    InitialDirs(pipeline)
    \cup {(ModelName(9) :> StaleTop(pipeline))
          @@ (ModelName(10) :> StaleTop(pipeline))}

(***************************************************************************)
(* train(): validation and set-up.                                         *)
(***************************************************************************)
\* one of the prints(..., exits=1) calls is reached
ValidationFails ==
    \/ ~args.train_exists
    \/ ~args.dev_exists
    \/ args.meta_file = "missing"
    \/ args.meta_file = "notdict"

\* Validate as it would be without the isinstance(meta, dict) test of lines
\* 71-73
ValidateSkipsMetaType ==
    /\ pc = "start"
    /\ env_log' = args.verbose
    /\ IF ~args.train_exists \/ ~args.dev_exists \/ args.meta_file = "missing"
       THEN /\ pc' = "done"
            /\ exc' = "exit1"
            /\ out_exists' = out_exists
       ELSE /\ pc' = "setup"
            /\ exc' = exc
            /\ out_exists' = TRUE
    /\ UNCHANGED <<args, fs0, sched, stream, steps, fs, nlp, device, i,
                   batches, nlp_loaded, scorer, gpu_wps, cpu_wps, meta, bests,
                   todo>>

Validate ==
    /\ pc = "start"
    /\ env_log' = args.verbose
    /\ IF ValidationFails
       THEN /\ pc' = "done"
            /\ exc' = "exit1"
            /\ out_exists' = out_exists
       ELSE /\ pc' = "setup"
            /\ exc' = exc
            /\ out_exists' = TRUE
    /\ UNCHANGED <<args, fs0, sched, stream, steps, fs, nlp, device, i,
                   batches, nlp_loaded, scorer, gpu_wps, cpu_wps, meta, bests,
                   todo>>

\* line 107: the component the objectives are for is not in the pipeline
Needs(pipe_name, multitasks) ==
    multitasks # <<>> /\ pipe_name \notin Range(args.pipeline)

\* lines 109-111: one add_multitask_objective call per objective of the list
Objectives(pipe_name, multitasks) ==
    [k \in DOMAIN multitasks |->
        [pipe |-> pipe_name, objective |-> multitasks[k]]]

\* Setup as it would be without the test of line 107
SetupUnchecked ==
    /\ pc = "setup"
    /\ nlp' = [nlp EXCEPT
                  !.built = TRUE, !.pipe_names = args.pipeline,
                  !.objectives =
                      Objectives("parser", args.parser_multitasks)
                      \o Objectives("ner", args.entity_multitasks),
                  !.begun = TRUE]
    /\ device' = IF args.use_gpu >= 0 THEN "gpu" ELSE "cpu"
    /\ pc' = "loop"
    /\ UNCHANGED <<args, fs0, sched, stream, steps, out_exists, fs, exc,
                   env_log, i, batches, nlp_loaded, scorer, gpu_wps, cpu_wps,
                   meta, bests, todo>>

\* lines 80-124: build the pipeline, add the multitask objectives of the
\* parser and then of ner, and call begin_training; the ValueError of line
\* 108 is raised outside the try statement
Setup ==
    /\ pc = "setup"
    /\ IF Needs("parser", args.parser_multitasks)
       THEN /\ nlp' = [nlp EXCEPT !.built = TRUE,
                                  !.pipe_names = args.pipeline]
            /\ exc' = "error"
            /\ pc' = "done"
            /\ device' = device
       ELSE IF Needs("ner", args.entity_multitasks)
       THEN /\ nlp' = [nlp EXCEPT
                          !.built = TRUE, !.pipe_names = args.pipeline,
                          !.objectives =
                              Objectives("parser", args.parser_multitasks)]
            /\ exc' = "error"
            /\ pc' = "done"
            /\ device' = device
       ELSE /\ nlp' = [nlp EXCEPT
                          !.built = TRUE, !.pipe_names = args.pipeline,
                          !.objectives =
                              Objectives("parser", args.parser_multitasks)
                              \o Objectives("ner", args.entity_multitasks),
                          !.begun = TRUE]
            /\ exc' = exc
            /\ pc' = "loop"
            /\ device' = IF args.use_gpu >= 0 THEN "gpu" ELSE "cpu"
    /\ UNCHANGED <<args, fs0, sched, stream, steps, out_exists, fs, env_log,
                   i, batches, nlp_loaded, scorer, gpu_wps, cpu_wps, meta,
                   bests, todo>>

(***************************************************************************)
(* Scoped resources.  A with statement leaves its scope on every path out  *)
(* of its body, the exceptional one included.                              *)
(***************************************************************************)
\* nlp.use_params(optimizer.averages): swap to the averaged parameters
use_params_enter(n) == [n EXCEPT !.view = "avg"]
use_params_exit(n) == [n EXCEPT !.view = "live"]

\* Model.use_device('cpu'): select the baseline backend, and the backend
\* selected at start-up again on the way out
use_device_enter(dev) == "cpu"
use_device_exit(dev) == IF args.use_gpu >= 0 THEN "gpu" ELSE "cpu"

\* positions inside the with block of lines 142-185, and inside the with
\* block of lines 159-166
InParamsScope(p) ==
    p \in {"to_disk", "load", "dev_docs", "evaluate", "cpu_load",
           "cpu_dev_docs", "cpu_evaluate", "write_acc", "write_meta", "leave"}
InDeviceScope(p) == p \in {"cpu_load", "cpu_dev_docs", "cpu_evaluate"}

\* positions of the try block at which a call may raise
RaisePoints ==
    {"batch", "to_disk", "load", "dev_docs", "evaluate", "cpu_load",
     "cpu_dev_docs", "cpu_evaluate", "write_acc", "write_meta"}

(***************************************************************************)
(* train(): the epoch loop.                                                *)
(***************************************************************************)
\* a step of the epoch as it is recorded: the call and the active backend
StepOn(op, dev) == [op |-> op, device |-> dev, batch |-> <<>>, size |-> 0]
Step(op) == StepOn(op, device)

RECURSIVE Power(_, _)
Power(b, n) == IF n = 0 THEN 1 ELSE b * Power(b, n - 1)

\* util.compounding(start, stop, compound): the value of draw number n, the
\* first draw being number 0
compounding(start, stop, compound, n) ==
    IF start * Power(compound, n) < stop THEN start * Power(compound, n)
    ELSE stop

\* next(batch_sizes) when n values have been drawn
BatchSize(n) ==
    compounding(args.batch_from, args.batch_to, args.batch_compound, n)

\* corpus.train_docs(...): the examples of an epoch, each with its identity
TrainDocs(words) == [k \in DOMAIN words |-> [id |-> k, words |-> words[k]]]

RECURSIVE Words(_)
\* sum(len(doc) for doc in docs)
Words(docs) ==
    IF docs = <<>> THEN 0 ELSE Head(docs).words + Words(Tail(docs))

RECURSIVE BatchLen(_, _)
\* minibatch_by_words: the number of examples the next batch takes from docs.
\* Examples are appended until the cumulative number of words meets or
\* exceeds the target, or the stream ends.
BatchLen(docs, target) ==
    IF docs = <<>> \/ target <= 0 THEN 0
    ELSE 1 + BatchLen(Tail(docs), target - Head(docs).words)

\* minibatch_by_words: the batch that is yielded next, of which the last one
\* of a stream is whatever had been accumulated when the stream ended
NextBatch(docs, target) == SubSeq(docs, 1, BatchLen(docs, target))
Rest(docs, target) == SubSeq(docs, BatchLen(docs, target) + 1, Len(docs))

\* LoopHead as it would be were the two schedules of lines 25-30 made inside
\* the loop: every epoch starts them anew
LoopHeadNewSchedules ==
    /\ pc = "loop"
    /\ IF i < args.n_iter
       THEN /\ pc' = "batch"
            /\ batches' = 0
            /\ stream' = [docs |-> TrainDocs(args.train_docs), done |-> FALSE]
            /\ steps' = <<>>
            /\ sched' = [sizes |-> 0, drops |-> 0]
       ELSE /\ pc' = "finally"
            /\ UNCHANGED <<batches, stream, steps, sched>>
    /\ UNCHANGED <<args, fs0, out_exists, fs, exc, env_log, nlp, device, i,
                   nlp_loaded, scorer, gpu_wps, cpu_wps, meta, bests, todo>>

\* for i in range(n_iter): train_docs = corpus.train_docs(...)
LoopHead ==
    /\ pc = "loop"
    /\ IF i < args.n_iter
       THEN /\ pc' = "batch"
            /\ batches' = 0
            /\ stream' = [docs |-> TrainDocs(args.train_docs), done |-> FALSE]
            /\ steps' = <<>>
       ELSE /\ pc' = "finally"
            /\ UNCHANGED <<batches, stream, steps>>
    /\ UNCHANGED <<args, fs0, sched, out_exists, fs, exc, env_log, nlp,
                   device, i, nlp_loaded, scorer, gpu_wps, cpu_wps, meta,
                   bests, todo>>

\* Update as it would be without the test of lines 135-136: nlp.update is
\* called with an empty batch as well
UpdateEveryBatch ==
    /\ pc = "batch"
    /\ ~stream.done
    /\ LET size == BatchSize(sched.sizes)
           batch == NextBatch(stream.docs, size)
           update == [Step("update") EXCEPT !.batch = batch, !.size = size]
       IN  /\ stream' = [docs |-> Rest(stream.docs, size),
                         done |-> Words(batch) < size]
           /\ sched' = [sizes |-> sched.sizes + 1, drops |-> sched.drops + 1]
           /\ steps' = Append(steps, update)
           /\ \/ /\ nlp' = [nlp EXCEPT !.ver = nlp.ver + 1]
                 /\ batches' = batches + 1
                 /\ UNCHANGED <<pc, exc>>
              \/ /\ exc' = "error"
                 /\ pc' = "finally"
                 /\ UNCHANGED <<nlp, batches>>
    /\ UNCHANGED <<args, fs0, out_exists, fs, env_log, device, i, nlp_loaded,
                   scorer, gpu_wps, cpu_wps, meta, bests, todo>>

\* lines 134-141, one pass of the loop over the batches: the partitioner
\* draws a target from batch_sizes and yields a batch; an empty batch is
\* skipped; otherwise a value is drawn from dropout_rates and nlp.update is
\* called, which returns or raises
Update ==
    /\ pc = "batch"
    /\ ~stream.done
    /\ LET size == BatchSize(sched.sizes)
           batch == NextBatch(stream.docs, size)
           update == [Step("update") EXCEPT !.batch = batch, !.size = size]
       IN  /\ stream' = [docs |-> Rest(stream.docs, size),
                         done |-> Words(batch) < size]
           /\ IF batch = <<>>
              THEN /\ sched' = [sched EXCEPT !.sizes = sched.sizes + 1]
                   /\ UNCHANGED <<steps, nlp, batches, pc, exc>>
              ELSE /\ sched' = [sizes |-> sched.sizes + 1,
                                drops |-> sched.drops + 1]
                   /\ steps' = Append(steps, update)
                   /\ \/ /\ nlp' = [nlp EXCEPT !.ver = nlp.ver + 1]
                         /\ batches' = batches + 1
                         /\ UNCHANGED <<pc, exc>>
                      \/ /\ exc' = "error"
                         /\ pc' = "finally"
                         /\ UNCHANGED <<nlp, batches>>
    /\ UNCHANGED <<args, fs0, out_exists, fs, env_log, device, i, nlp_loaded,
                   scorer, gpu_wps, cpu_wps, meta, bests, todo>>

\* the batches are exhausted: with nlp.use_params(...): set_env_log(False)
EnterCheckpoint ==
    /\ pc = "batch"
    /\ stream.done
    /\ nlp' = use_params_enter(nlp)
    /\ env_log' = FALSE
    /\ pc' = "to_disk"
    /\ UNCHANGED <<args, fs0, sched, stream, steps, out_exists, fs, exc,
                   device, i, batches, nlp_loaded, scorer, gpu_wps, cpu_wps,
                   meta, bests, todo>>

\* Language.to_disk(path): the pipeline under the current view; files of the
\* directory that are not part of the pipeline stay
Saved(dir, path, n) ==
    LET params == Params(n.view, n.ver)
    IN  (path :> [comps |-> Pipes(n.pipe_names, params),
                  vocab |-> params,
                  acc |-> IF path \in DOMAIN dir THEN dir[path].acc
                          ELSE NoFile,
                  meta |-> IF path \in DOMAIN dir THEN dir[path].meta
                           ELSE NoFile]) @@ dir

ToDisk ==
    /\ pc = "to_disk"
    /\ fs' = Saved(fs, ModelName(i), nlp)
    /\ pc' = "load"
    /\ steps' = Append(steps, Step("to_disk"))
    /\ UNCHANGED <<args, fs0, sched, stream, out_exists, exc, env_log,
                   nlp, device, i, batches, nlp_loaded, scorer, gpu_wps,
                   cpu_wps, meta, bests, todo>>

\* util.load_model_from_path(epoch_model_path)
Load ==
    /\ pc \in {"load", "cpu_load"}
    /\ nlp_loaded' = Some(fs[ModelName(i)].comps)
    /\ pc' = IF pc = "load" THEN "dev_docs" ELSE "cpu_dev_docs"
    /\ steps' = Append(steps, Step("load"))
    /\ UNCHANGED <<args, fs0, sched, stream, out_exists, fs, exc,
                   env_log, nlp, device, i, batches, scorer, gpu_wps, cpu_wps,
                   meta, bests, todo>>

\* list(corpus.dev_docs(nlp_loaded, ...))
DevDocs ==
    /\ pc \in {"dev_docs", "cpu_dev_docs"}
    /\ pc' = IF pc = "dev_docs" THEN "evaluate" ELSE "cpu_evaluate"
    /\ steps' = Append(steps, Step("dev_docs"))
    /\ UNCHANGED <<args, fs0, sched, stream, out_exists, fs, exc,
                   env_log, nlp, device, i, batches, nlp_loaded, scorer,
                   gpu_wps, cpu_wps, meta, bests, todo>>

\* the metrics the components of the pipeline are ranked on
Ranked(pipeline) == UNION {Range(_get_metrics(c)) : c \in Range(pipeline)}

\* the values scorer.scores may take: every metric is present
DevScores(pipeline) ==
    {[m \in AllMetrics |-> IF m \in Ranked(pipeline) THEN r[m] ELSE 0] :
        r \in [Ranked(pipeline) -> 0..MaxScore]}

\* nwords/(end_time-start_time)
Wps(nwords, elapsed) == nwords \div elapsed

\* Evaluate as it would be were the missing accelerated throughput recorded
\* as zero
EvaluateZeroGpu ==
    /\ pc = "evaluate"
    /\ scorer' \in {Some(s) : s \in DevScores(args.pipeline)}
    /\ IF args.use_gpu < 0
       THEN /\ gpu_wps' = Some(0)
            /\ cpu_wps' = Some(Wps(DevWords, Elapsed))
            /\ device' = device
            /\ pc' = "write_acc"
       ELSE /\ gpu_wps' = Some(Wps(DevWords, Elapsed))
            /\ cpu_wps' = cpu_wps
            /\ device' = use_device_enter(device)
            /\ pc' = "cpu_load"
    /\ steps' = Append(steps, Step("evaluate"))
    /\ UNCHANGED <<args, fs0, sched, stream, out_exists, fs, exc,
                   env_log, nlp, i, batches, nlp_loaded, meta, bests, todo>>

\* Evaluate as it would be without lines 159-166: no evaluation under the
\* baseline backend
EvaluateOnce ==
    /\ pc = "evaluate"
    /\ scorer' \in {Some(s) : s \in DevScores(args.pipeline)}
    /\ IF args.use_gpu < 0
       THEN /\ gpu_wps' = None
            /\ cpu_wps' = Some(Wps(DevWords, Elapsed))
       ELSE /\ gpu_wps' = Some(Wps(DevWords, Elapsed))
            /\ cpu_wps' = cpu_wps
    /\ device' = device
    /\ pc' = "write_acc"
    /\ steps' = Append(steps, Step("evaluate"))
    /\ UNCHANGED <<args, fs0, sched, stream, out_exists, fs, exc, env_log,
                   nlp, i, batches, nlp_loaded, meta, bests, todo>>

\* lines 151-159: evaluate, time it, and branch on use_gpu
Evaluate ==
    /\ pc = "evaluate"
    /\ scorer' \in {Some(s) : s \in DevScores(args.pipeline)}
    /\ IF args.use_gpu < 0
       THEN /\ gpu_wps' = None
            /\ cpu_wps' = Some(Wps(DevWords, Elapsed))
            /\ device' = device
            /\ pc' = "write_acc"
       ELSE /\ gpu_wps' = Some(Wps(DevWords, Elapsed))
            /\ cpu_wps' = cpu_wps
            /\ device' = use_device_enter(device)
            /\ pc' = "cpu_load"
    /\ steps' = Append(steps, Step("evaluate"))
    /\ UNCHANGED <<args, fs0, sched, stream, out_exists, fs, exc,
                   env_log, nlp, i, batches, nlp_loaded, meta, bests, todo>>

\* lines 163-166: evaluate under the baseline backend, leave the scope
CpuEvaluate ==
    /\ pc = "cpu_evaluate"
    /\ scorer' \in {Some(s) : s \in DevScores(args.pipeline)}
    /\ cpu_wps' = Some(Wps(DevWords, Elapsed))
    /\ device' = use_device_exit(device)
    /\ pc' = "write_acc"
    /\ steps' = Append(steps, Step("evaluate"))
    /\ UNCHANGED <<args, fs0, sched, stream, out_exists, fs, exc,
                   env_log, nlp, i, batches, nlp_loaded, gpu_wps, meta, bests,
                   todo>>

\* WriteAcc as it would be were lines 171-183 left out: the epoch ends with
\* accuracy.json
WriteAccOnly ==
    /\ pc = "write_acc"
    /\ fs' = [fs EXCEPT ![ModelName(i)].acc = Some(Content(scorer))]
    /\ pc' = "leave"
    /\ steps' = Append(steps, Step("write_acc"))
    /\ UNCHANGED <<args, fs0, sched, stream, out_exists, exc, env_log, nlp,
                   device, i, batches, nlp_loaded, scorer, gpu_wps, cpu_wps,
                   meta, bests, todo>>

\* write_json(acc_loc, scorer.scores)
WriteAcc ==
    /\ pc = "write_acc"
    /\ fs' = [fs EXCEPT ![ModelName(i)].acc = Some(Content(scorer))]
    /\ pc' = "write_meta"
    /\ steps' = Append(steps, Step("write_acc"))
    /\ UNCHANGED <<args, fs0, sched, stream, out_exists, exc, env_log,
                   nlp, device, i, batches, nlp_loaded, scorer, gpu_wps,
                   cpu_wps, meta, bests, todo>>

\* lines 171-181: the meta dict after this epoch's assignments
EpochMeta(m, scores, cpu, gpu, epoch) ==
    [accuracy |-> Some(scores),
     speed |-> Some([nwords |-> DevWords, cpu |-> cpu, gpu |-> gpu]),
     name |-> IF m.name = None THEN Some(ModelName(epoch)) ELSE m.name]

\* lines 171-183: update the meta dict and write it
WriteMeta ==
    /\ pc = "write_meta"
    /\ meta' = EpochMeta(meta, Content(scorer), cpu_wps, gpu_wps, i)
    /\ fs' = [fs EXCEPT ![ModelName(i)].meta = Some(meta')]
    /\ pc' = "leave"
    /\ steps' = Append(steps, Step("write_meta"))
    /\ UNCHANGED <<args, fs0, sched, stream, out_exists, exc, env_log,
                   nlp, device, i, batches, nlp_loaded, scorer, gpu_wps,
                   cpu_wps, bests, todo>>

\* LeaveCheckpoint as it would be were the loop inside the with block: the
\* averaged view stays for the next epoch
LeaveCheckpointKeepsView ==
    /\ pc = "leave"
    /\ env_log' = args.verbose
    /\ i' = i + 1
    /\ pc' = "loop"
    /\ UNCHANGED <<args, fs0, sched, stream, steps, out_exists, fs, exc, nlp,
                   device, batches, nlp_loaded, scorer, gpu_wps, cpu_wps, meta,
                   bests, todo>>

\* lines 185-188: set_env_log(verbose), leave the with block, print_progress
LeaveCheckpoint ==
    /\ pc = "leave"
    /\ env_log' = args.verbose
    /\ nlp' = use_params_exit(nlp)
    /\ i' = i + 1
    /\ pc' = "loop"
    /\ UNCHANGED <<args, fs0, sched, stream, steps, out_exists, fs, exc,
                   device, batches, nlp_loaded, scorer, gpu_wps, cpu_wps, meta,
                   bests, todo>>

\* Raise as it would be were the backend selected without a with statement:
\* an exception leaves the baseline backend selected
RaiseKeepsDevice ==
    /\ pc \in RaisePoints
    /\ exc' = "error"
    /\ nlp' = IF InParamsScope(pc) THEN use_params_exit(nlp) ELSE nlp
    /\ pc' = "finally"
    /\ UNCHANGED <<args, fs0, sched, stream, steps, out_exists, fs, env_log,
                   device, i, batches, nlp_loaded, scorer, gpu_wps, cpu_wps,
                   meta, bests, todo>>

\* a call of the try block raises: the with blocks around it are left and
\* control passes to the finally clause
Raise ==
    /\ pc \in RaisePoints
    /\ exc' = "error"
    /\ nlp' = IF InParamsScope(pc) THEN use_params_exit(nlp) ELSE nlp
    /\ device' = IF InDeviceScope(pc) THEN use_device_exit(device) ELSE device
    /\ pc' = "finally"
    /\ UNCHANGED <<args, fs0, sched, stream, steps, out_exists, fs, env_log, i,
                   batches, nlp_loaded, scorer, gpu_wps, cpu_wps, meta, bests,
                   todo>>

\* FinalSave as it would be were the save placed after the loop instead of in
\* a finally clause: an exception skips it
FinalSaveAfterLoop ==
    /\ pc = "finally"
    /\ fs' = IF exc = "error" THEN fs
             ELSE Saved(fs, ModelFinal, use_params_enter(nlp))
    /\ nlp' = use_params_exit(use_params_enter(nlp))
    /\ pc' = IF exc = "error" THEN "done" ELSE "collate"
    /\ steps' = IF exc = "error" THEN steps
               ELSE Append(steps, Step("final"))
    /\ UNCHANGED <<args, fs0, sched, stream, out_exists, exc, env_log,
                   device, i, batches, nlp_loaded, scorer, gpu_wps, cpu_wps,
                   meta, bests, todo>>

\* FinalSave as it would be were the exception swallowed by an except clause:
\* line 196 is reached on every path
FinalSaveSwallows ==
    /\ pc = "finally"
    /\ fs' = Saved(fs, ModelFinal, use_params_enter(nlp))
    /\ nlp' = use_params_exit(use_params_enter(nlp))
    /\ pc' = "collate"
    /\ steps' = Append(steps, Step("final"))
    /\ UNCHANGED <<args, fs0, sched, stream, out_exists, exc, env_log,
                   device, i, batches, nlp_loaded, scorer, gpu_wps, cpu_wps,
                   meta, bests, todo>>

\* lines 189-194: the finally clause; afterwards a pending exception
\* propagates out of train(), otherwise line 196 is reached
FinalSave ==
    /\ pc = "finally"
    /\ fs' = Saved(fs, ModelFinal, use_params_enter(nlp))
    /\ nlp' = use_params_exit(use_params_enter(nlp))
    /\ pc' = IF exc = "error" THEN "done" ELSE "collate"
    /\ steps' = Append(steps, Step("final"))
    /\ UNCHANGED <<args, fs0, sched, stream, out_exists, exc, env_log,
                   device, i, batches, nlp_loaded, scorer, gpu_wps, cpu_wps,
                   meta, bests, todo>>

(***************************************************************************)
(* _collate_best_model(meta, output_path, nlp.pipe_names)                  *)
(***************************************************************************)
\* lines 214-216
CollateFind ==
    /\ pc = "collate"
    /\ IF FindBestRaises(fs)
       THEN /\ exc' = "error"
            /\ pc' = "done"
            /\ bests' = bests
       ELSE /\ exc' = exc
            /\ pc' = "copy"
            /\ bests' = [c \in Range(nlp.pipe_names) |-> _find_best(fs, c)]
    /\ UNCHANGED <<args, fs0, sched, stream, steps, out_exists, fs, env_log,
                   nlp, device, i, batches, nlp_loaded, scorer, gpu_wps,
                   cpu_wps, meta, todo>>

\* lines 217-218: shutil.copytree raises when the destination exists
CollateCopy ==
    /\ pc = "copy"
    /\ IF ModelBest \in DOMAIN fs
       THEN /\ exc' = "error"
            /\ pc' = "done"
            /\ fs' = fs
            /\ todo' = todo
       ELSE /\ exc' = exc
            /\ pc' = "merge"
            /\ fs' = (ModelBest :> fs[ModelFinal]) @@ fs
            /\ todo' = DOMAIN bests
    /\ UNCHANGED <<args, fs0, sched, stream, steps, out_exists, env_log, nlp,
                   device, i, batches, nlp_loaded, scorer, gpu_wps, cpu_wps,
                   meta, bests>>

\* f without the key k
Without(f, k) == [x \in DOMAIN f \ {k} |-> f[x]]

\* lines 224-225 raise: meta has no 'accuracy', or accs lacks a metric
MergeRaises(m, accs, component) ==
    \/ m.accuracy = None
    \/ \E metric \in Range(_get_metrics(component)) : metric \notin DOMAIN accs

\* lines 224-225: meta['accuracy'][metric] = accs[metric]
Merged(m, accs, component) ==
    [m EXCEPT !.accuracy =
        Some([metric \in DOMAIN Content(m.accuracy) |->
                IF metric \in Range(_get_metrics(component))
                THEN accs[metric] ELSE Content(m.accuracy)[metric]])]

\* Replaced as it would be were the whole winning snapshot copied, not the
\* sub-directory of the component
ReplacedAll(dir, component, src) ==
    [dir EXCEPT ![ModelBest].comps = dir[src].comps,
                ![ModelBest].vocab = dir[src].vocab]

\* Replaced as it would be were the sub-directory moved out of the winning
\* location instead of copied
ReplacedMoving(dir, component, src) ==
    [dir EXCEPT ![ModelBest].comps =
                    (component :> dir[src].comps[component])
                    @@ dir[ModelBest].comps,
                ![src].comps = Without(dir[src].comps, component)]

\* model-best after lines 220-221 for one component
Replaced(dir, component, src) ==
    [dir EXCEPT ![ModelBest].comps =
        (component :> dir[src].comps[component]) @@ dir[ModelBest].comps]

\* lines 219-225, one pass of the loop over bests.items(); the order of a
\* dict's items is not fixed by the language
CollateComponent ==
    /\ pc = "merge"
    /\ todo # {}
    /\ \E component \in todo :
        LET src == bests[component]
            removed == [fs EXCEPT ![ModelBest].comps = Without(@, component)]
        IN  IF component \notin DOMAIN fs[ModelBest].comps
            THEN \* shutil.rmtree raises
                 /\ exc' = "error" /\ pc' = "done"
                 /\ UNCHANGED <<fs, meta, todo>>
            ELSE IF src = None \/ component \notin DOMAIN fs[Content(src)].comps
            THEN \* None / component, or shutil.copytree, raises
                 /\ exc' = "error" /\ pc' = "done"
                 /\ fs' = removed
                 /\ UNCHANGED <<meta, todo>>
            ELSE IF MergeRaises(meta, Content(fs[Content(src)].acc), component)
            THEN /\ exc' = "error" /\ pc' = "done"
                 /\ fs' = Replaced(fs, component, Content(src))
                 /\ UNCHANGED <<meta, todo>>
            ELSE /\ fs' = Replaced(fs, component, Content(src))
                 /\ meta' = Merged(meta, Content(fs[Content(src)].acc),
                                   component)
                 /\ todo' = todo \ {component}
                 /\ UNCHANGED <<exc, pc>>
    /\ UNCHANGED <<args, fs0, sched, stream, steps, out_exists, env_log, nlp,
                   device, i, batches, nlp_loaded, scorer, gpu_wps, cpu_wps,
                   bests>>

\* line 226: write_json(best_dest / 'meta.json', meta)
CollateWrite ==
    /\ pc = "merge"
    /\ todo = {}
    /\ fs' = [fs EXCEPT ![ModelBest].meta = Some(meta)]
    /\ pc' = "done"
    /\ UNCHANGED <<args, fs0, sched, stream, steps, out_exists, exc, env_log,
                   nlp, device, i, batches, nlp_loaded, scorer, gpu_wps,
                   cpu_wps, meta, bests, todo>>

Next ==
    \/ Validate
    \/ Setup
    \/ LoopHead
    \/ Update
    \/ EnterCheckpoint
    \/ ToDisk
    \/ Load
    \/ DevDocs
    \/ Evaluate
    \/ CpuEvaluate
    \/ WriteAcc
    \/ WriteMeta
    \/ LeaveCheckpoint
    \/ Raise
    \/ FinalSave
    \/ CollateFind
    \/ CollateCopy
    \/ CollateComponent
    \/ CollateWrite

Spec == Init /\ [][Next]_vars

\* train() over the example streams and batch-size schedules of TrainerArgs,
\* and over the multitask options of MultitaskArgs, in an empty output_path
InitTrainer == Called(TrainerArgs) /\ fs = EmptyDir
SpecTrainer == InitTrainer /\ [][Next]_vars

InitMultitask == Called(MultitaskArgs) /\ fs = EmptyDir
SpecMultitask == InitMultitask /\ [][Next]_vars

(***************************************************************************)
(* The composer on its own: it starts in the state in which a run of       *)
(* train() that raised nothing reaches line 196, for every sequence of     *)
(* per-epoch scores, and the steps of _collate_best_model follow.          *)
(***************************************************************************)
\* the pipeline object of a run after the given number of epochs
TrainedNlp(a, epochs, view) ==
    [built |-> TRUE, pipe_names |-> a.pipeline, objectives |-> <<>>,
     begun |-> TRUE, ver |-> epochs * Len(a.train_docs), view |-> view]

\* the calls of an epoch of such a run (use_gpu < 0, one batch per example)
EpochSteps(a) ==
    [k \in DOMAIN a.train_docs |->
        [StepOn("update", "cpu") EXCEPT
            !.batch = <<TrainDocs(a.train_docs)[k]>>, !.size = 1]]
    \o <<StepOn("to_disk", "cpu"), StepOn("load", "cpu"),
         StepOn("dev_docs", "cpu"), StepOn("evaluate", "cpu"),
         StepOn("write_acc", "cpu"), StepOn("write_meta", "cpu")>>

\* what line 196 finds in sched, stream and steps after the given epochs
SchedAfter(a, epochs) ==
    [sizes |-> epochs * (Len(a.train_docs) + 1),
     drops |-> epochs * Len(a.train_docs)]
StepsAfter(a, epochs) ==
    (IF epochs = 0 THEN <<>> ELSE EpochSteps(a))
    \o <<StepOn("final", "cpu")>>

\* the meta dict after the epochs whose scores are scs (use_gpu < 0)
RECURSIVE MetaAfter(_, _)
MetaAfter(scs, k) ==
    IF k = 0 THEN [accuracy |-> None, speed |-> None, name |-> None]
    ELSE EpochMeta(MetaAfter(scs, k - 1), scs[k],
                   Some(Wps(DevWords, Elapsed)), None, k - 1)

\* output_path after the epochs whose scores are scs
RECURSIVE DirAfter(_, _, _, _)
DirAfter(dir, a, scs, k) ==
    IF k = 0 THEN dir
    ELSE LET saved == Saved(DirAfter(dir, a, scs, k - 1), ModelName(k - 1),
                            TrainedNlp(a, k, "avg"))
         IN  [saved EXCEPT ![ModelName(k - 1)].acc = Some(scs[k]),
                           ![ModelName(k - 1)].meta = Some(MetaAfter(scs, k))]

CollateArgs ==
    [n_iter : 0..MaxIter, use_gpu : {-1}, verbose : {FALSE},
     pipeline : CollatePipelines, train_docs : {<<1>>},
     batch_from : {1}, batch_to : {1}, batch_compound : {1},
     parser_multitasks : {<<>>}, entity_multitasks : {<<>>},
     train_exists : {TRUE}, dev_exists : {TRUE}, meta_file : {"none"}]

InitCollate ==
    /\ args \in CollateArgs
    /\ out_exists = TRUE
    /\ fs0 \in [exists : {TRUE}, dirs : CollateDirs(args.pipeline)]
    /\ \E scs \in [1..args.n_iter -> DevScores(args.pipeline)] :
        /\ fs = Saved(DirAfter(fs0.dirs, args, scs, args.n_iter), ModelFinal,
                      TrainedNlp(args, args.n_iter, "avg"))
        /\ meta = MetaAfter(scs, args.n_iter)
        /\ scorer = IF args.n_iter = 0 THEN None
                    ELSE Some(scs[args.n_iter])
    /\ pc = "collate"
    /\ exc = "none"
    /\ env_log = args.verbose
    /\ nlp = TrainedNlp(args, args.n_iter, "live")
    /\ device = "cpu"
    /\ i = args.n_iter
    /\ batches = IF args.n_iter = 0 THEN 0 ELSE Len(args.train_docs)
    /\ sched = SchedAfter(args, args.n_iter)
    /\ stream = [docs |-> <<>>, done |-> TRUE]
    /\ steps = StepsAfter(args, args.n_iter)
    /\ nlp_loaded = IF args.n_iter = 0 THEN None
                    ELSE Some(fs[ModelName(args.n_iter - 1)].comps)
    /\ gpu_wps = None
    /\ cpu_wps = IF args.n_iter = 0 THEN None
                 ELSE Some(Wps(DevWords, Elapsed))
    /\ bests = <<>>
    /\ todo = {}

NextCollate ==
    \/ CollateFind
    \/ CollateCopy
    \/ CollateComponent
    \/ CollateWrite

SpecCollate == InitCollate /\ [][NextCollate]_vars

\* a state in which train() reaches line 196 with the arguments of
\* CollateArgs is an initial state of the composer on its own
CollateStart ==
    \E scs \in [1..args.n_iter -> DevScores(args.pipeline)] :
        /\ fs = Saved(DirAfter(fs0.dirs, args, scs, args.n_iter), ModelFinal,
                      TrainedNlp(args, args.n_iter, "avg"))
        /\ meta = MetaAfter(scs, args.n_iter)
        /\ scorer = IF args.n_iter = 0 THEN None
                    ELSE Some(scs[args.n_iter])
        /\ nlp = TrainedNlp(args, args.n_iter, "live")
        /\ nlp_loaded = IF args.n_iter = 0 THEN None
                        ELSE Some(fs[ModelName(args.n_iter - 1)].comps)
        /\ cpu_wps = IF args.n_iter = 0 THEN None
                     ELSE Some(Wps(DevWords, Elapsed))
        /\ env_log = args.verbose /\ device = "cpu" /\ i = args.n_iter
        /\ batches = (IF args.n_iter = 0 THEN 0 ELSE Len(args.train_docs))
        /\ sched = SchedAfter(args, args.n_iter)
        /\ stream = [docs |-> <<>>, done |-> TRUE]
        /\ steps = StepsAfter(args, args.n_iter)
        /\ gpu_wps = None /\ bests = <<>> /\ todo = {} /\ exc = "none"
        /\ out_exists = TRUE

(***************************************************************************)
(* Properties of train().                                                  *)
(***************************************************************************)
\* Under Spec: a run with use_gpu < 0, one batch per epoch and verbose off
\* reaches line 196 in a state of the form the composer on its own starts in.
CollateStartMatchesRun ==
    (pc = "collate" /\ args.use_gpu < 0 /\ args.train_docs = <<1>>
        /\ ~args.verbose) => CollateStart

\* the epoch loop has been left
AfterLoop == pc \in {"collate", "copy", "merge", "done"} /\ nlp.begun

\* model-final holds the pipeline as it is now, under the averaged view
FinalSavedAveraged ==
    /\ ModelFinal \in DOMAIN fs
    /\ fs[ModelFinal].vocab = Params("avg", nlp.ver)
    /\ fs[ModelFinal].comps = Pipes(args.pipeline, Params("avg", nlp.ver))

\* C1: on every path out of the epoch loop, the normal one and the one an
\* exception takes, the pipeline has been saved to model-final under the
\* averaged-parameter view once the loop is left.
C1_FinalSaveOnEveryExit == AfterLoop => FinalSavedAveraged

\* an exception raised in the second epoch, after one update of that epoch,
\* has propagated, and model-final holds the parameters of that moment
C1_Witness ==
    /\ pc = "done" /\ exc = "error" /\ i = 1 /\ args.n_iter = 2
    /\ batches = 1
    /\ FinalSavedAveraged

\* C2: when an exception raised inside an epoch is pending, the only step
\* left is the final save: the epoch index and the parameters stay, the
\* composer is not started, train() is over afterwards, and model-best does
\* not exist then unless it existed at the start.
C2_ExceptionAbortsRun ==
    [][/\ pc # "done"
       /\ (pc = "finally" /\ exc = "error") =>
            /\ pc' = "done"
            /\ i' = i /\ nlp'.ver = nlp.ver
            /\ bests' = <<>> /\ todo' = {}
            /\ DOMAIN fs' = DOMAIN fs \cup {ModelFinal}
            /\ (ModelBest \notin DOMAIN fs0.dirs => ModelBest \notin DOMAIN fs')
    ]_vars

\* an exception raised in the first of two epochs has propagated: the second
\* epoch left no location and there is no model-best
C2_Witness ==
    /\ pc = "done" /\ exc = "error" /\ i = 0 /\ args.n_iter = 2
    /\ ModelName(1) \notin DOMAIN fs
    /\ ModelBest \notin DOMAIN fs
    /\ ModelFinal \in DOMAIN fs

\* C7: outside the checkpoint block the verbosity state is the configured
\* one, whether the block was left normally or by an exception.
C7_VerbosityRestored ==
    (pc # "start" /\ exc # "exit1" /\ ~InParamsScope(pc)) =>
        env_log = args.verbose

\* C8: the averaged view is active at every persist and every evaluation,
\* every snapshot on disk was written under it, and it is not active at the
\* head of the loop, at an update, or when the finally clause is entered.
C8_AveragedViewScoped ==
    /\ pc \in {"to_disk", "evaluate", "cpu_evaluate"} => nlp.view = "avg"
    /\ pc \in {"loop", "batch", "finally"} => nlp.view = "live"
    /\ \A d \in DOMAIN fs : fs[d].vocab.view \in {"avg", "stale"}

\* the second epoch was persisted under the averaged view, a later call of
\* its checkpoint block raised, and the view is the live one again
C8_Witness ==
    /\ pc = "finally" /\ exc = "error" /\ i = 1
    /\ ModelName(1) \in DOMAIN fs
    /\ fs[ModelName(1)].vocab = Params("avg", nlp.ver)
    /\ nlp.view = "live"

\* the speed record of the meta.json of epoch j
EpochSpeed(j) == Content(Content(fs[ModelName(j)].meta).speed)

\* every completed epoch has a meta.json with a speed record
EpochSpeedsWritten ==
    \A j \in 0..(i - 1) :
        /\ ModelName(j) \in DOMAIN fs
        /\ fs[ModelName(j)].meta # NoFile
        /\ Content(fs[ModelName(j)].meta).speed # None

\* C9 as stated: with use_gpu = 0 every epoch's speed record has a baseline
\* throughput and no accelerated throughput.
C9_Original ==
    args.use_gpu = 0 =>
        /\ EpochSpeedsWritten
        /\ \A j \in 0..(i - 1) :
            EpochSpeed(j).cpu # None /\ EpochSpeed(j).gpu = None

\* C9 as amended: every epoch's speed record has a baseline throughput; it
\* has no accelerated throughput when use_gpu is negative, and it has one
\* when use_gpu is 0.
C9_SpeedRecord ==
    /\ EpochSpeedsWritten
    /\ \A j \in 0..(i - 1) :
        /\ EpochSpeed(j).cpu # None
        /\ args.use_gpu < 0 => EpochSpeed(j).gpu = None
        /\ args.use_gpu = 0 => EpochSpeed(j).gpu # None

\* a run with use_gpu = -1 has completed two epochs
C9_Witness ==
    /\ args.use_gpu = -1 /\ i = 2 /\ pc = "done" /\ exc = "none"
    /\ EpochSpeed(1).gpu = None

\* C10: when a path is missing or the meta file is no mapping, train() ends
\* with exit code 1 and nothing has been done: the output directory is as
\* it was, no pipeline is built and no update was made.
C10_ValidationExits ==
    ValidationFails =>
        /\ pc \in {"start", "done"}
        /\ pc = "done" => exc = "exit1"
        /\ out_exists = fs0.exists
        /\ fs = fs0.dirs
        /\ ~nlp.built /\ nlp.ver = 0

\* train() has exited with code 1 on a meta file that is no mapping, and
\* the output directory was not created
C10_Witness ==
    /\ pc = "done" /\ exc = "exit1"
    /\ args.train_exists /\ args.dev_exists /\ args.meta_file = "notdict"
    /\ ~out_exists

(***************************************************************************)
(* Properties of the composer.                                             *)
(***************************************************************************)
\* the ranking metrics of a component kind, first the most significant
RankingTuple(component) ==
    CASE component = "parser" -> <<"las", "uas", "token_acc">>
      [] component = "tagger" -> <<"tags_acc">>
      [] component = "ner" -> <<"ents_f", "ents_p", "ents_r">>
      [] OTHER -> <<"token_acc">>

\* a mapping of metrics projected on the ranking tuple, a missing metric as 0
Projected(accs, component) ==
    [k \in DOMAIN RankingTuple(component) |->
        IF RankingTuple(component)[k] \in DOMAIN accs
        THEN accs[RankingTuple(component)[k]] ELSE 0]

\* a is below b in the lexicographic order, the first element most
\* significant
LexBelow(a, b) ==
    \E k \in DOMAIN a :
        /\ a[k] < b[k]
        /\ \A j \in 1..(k - 1) : a[j] = b[j]

\* the epoch locations of the output directory
EpochDirs == DOMAIN fs \ {ModelFinal, ModelBest}
EpochTuple(d, component) == Projected(Content(fs[d].acc), component)

\* _collate_best_model has returned
Composed == pc = "done" /\ exc = "none"

\* C3 as stated: once the composer has returned, the metrics the composite
\* meta descriptor holds for each component are the greatest ranking tuple
\* any epoch reached for that component.
C3_CompositeIsMaximal ==
    Composed =>
        \A c \in Range(args.pipeline) :
            LET got == Projected(Content(Content(fs[ModelBest].meta).accuracy),
                                 c)
            IN  /\ \E d \in EpochDirs : got = EpochTuple(d, c)
                /\ \A d \in EpochDirs : ~LexBelow(got, EpochTuple(d, c))

\* C4: for each component the location _find_best returns is one whose
\* ranking tuple no other epoch exceeds in the lexicographic order; an epoch
\* with the strictly greatest first metric is therefore the one returned.
C4_FindBestIsLexMax ==
    (pc = "copy" /\ EpochDirs # {}) =>
        \A c \in Range(args.pipeline) :
            /\ bests[c] # None
            /\ Content(bests[c]) \in EpochDirs
            /\ \A d \in EpochDirs :
                ~LexBelow(EpochTuple(Content(bests[c]), c), EpochTuple(d, c))

\* of two epochs the first has the greater las and the smaller uas and
\* token_acc, and it is the parser's winner
C4_Witness ==
    /\ pc = "copy" /\ args.n_iter = 2 /\ fs0.dirs = EmptyDir
    /\ "parser" \in DOMAIN bests
    /\ bests["parser"] = Some(ModelName(0))
    /\ EpochTuple(ModelName(0), "parser") = <<1, 0, 0>>
    /\ EpochTuple(ModelName(1), "parser") = <<0, 1, 1>>

\* the snapshot the final save wrote
FinalSnapshot ==
    [comps |-> Pipes(args.pipeline, Params("avg", nlp.ver)),
     vocab |-> Params("avg", nlp.ver), acc |-> NoFile, meta |-> NoFile]

\* model-best is model-final with the sub-directory of every component that
\* has a winner taken from the winning location
BestIsComposite ==
    /\ ModelBest \in DOMAIN fs
    /\ fs[ModelBest].vocab = fs[ModelFinal].vocab
    /\ fs[ModelBest].acc = fs[ModelFinal].acc
    /\ DOMAIN fs[ModelBest].comps = DOMAIN fs[ModelFinal].comps
    /\ \A c \in DOMAIN fs[ModelBest].comps :
        fs[ModelBest].comps[c] =
            IF c \in DOMAIN bests /\ bests[c] # None
            THEN fs[Content(bests[c])].comps[c]
            ELSE fs[ModelFinal].comps[c]

\* C5 as stated: model-final is never changed, and once the composer has
\* returned model-best differs from it in nothing but the sub-directories
\* of the components that have a winner.
C5_Original ==
    /\ fs[ModelFinal] = FinalSnapshot
    /\ Composed =>
        /\ BestIsComposite
        /\ fs[ModelBest].meta = fs[ModelFinal].meta

\* C5 as amended: model-final is never changed, and once the composer has
\* returned model-best differs from it in the sub-directories of the
\* components that have a winner and in meta.json, which holds the
\* composite meta descriptor, and in nothing else.
C5_BestIsCompositeOfFinal ==
    /\ fs[ModelFinal] = FinalSnapshot
    /\ Composed =>
        /\ BestIsComposite
        /\ fs[ModelBest].meta = Some(meta)

\* the composer has returned after two epochs; the parser's sub-directory
\* comes from the first epoch and textcat's from the second
C5_Witness ==
    /\ Composed /\ args.n_iter = 2
    /\ args.pipeline = <<"parser", "textcat">>
    /\ bests["parser"] = Some(ModelName(0))
    /\ bests["textcat"] = Some(ModelName(1))
    /\ fs[ModelBest].comps["parser"] = Params("avg", 1)
    /\ fs[ModelBest].comps["textcat"] = Params("avg", 2)

\* C6 as stated: a run without epochs into an empty output directory ends
\* with the composer returning, no component having a winner and model-best
\* holding every component as model-final does.
C6_NoEpochsKeepsFinal ==
    (pc = "done" /\ exc # "exit1" /\ args.n_iter = 0 /\ fs0.dirs = EmptyDir)
    => /\ exc = "none"
       /\ \A c \in Range(args.pipeline) : bests[c] = None
       /\ ModelBest \in DOMAIN fs
       /\ fs[ModelBest].comps = fs[ModelFinal].comps

(***************************************************************************)
(* Properties of the set-up and of the epoch trainer.                      *)
(***************************************************************************)
\* a multitask objective is requested for a component the pipeline lacks
MultitaskForAbsent ==
    \/ args.parser_multitasks # <<>> /\ "parser" \notin Range(args.pipeline)
    \/ args.entity_multitasks # <<>> /\ "ner" \notin Range(args.pipeline)

\* the objectives registered on a component, in the order of the calls
RegisteredOn(pipe_name) ==
    LET OnPipe(r) == r.pipe = pipe_name
        calls == SelectSeq(nlp.objectives, OnPipe)
    IN  [k \in DOMAIN calls |-> calls[k].objective]

\* C11: when a multitask objective is requested for 'parser' or 'ner' and
\* the pipeline lacks that component, train() ends with an error straight
\* after the set-up: begin_training is not called, no update is made and
\* output_path holds what it held, so no epoch location and no model-final.
\* Otherwise, from the end of the set-up on, and so before the first update,
\* the objectives registered on each of the two components are the
\* objectives of its list, each registered once.
C11_MultitaskObjectives ==
    /\ MultitaskForAbsent =>
        /\ pc \in {"start", "setup", "done"}
        /\ pc = "done" => exc = "error"
        /\ ~nlp.begun /\ nlp.ver = 0 /\ sched.drops = 0
        /\ fs = fs0.dirs
    /\ (~MultitaskForAbsent /\ pc \notin {"start", "setup"}) =>
        /\ nlp.begun
        /\ RegisteredOn("parser") = args.parser_multitasks
        /\ RegisteredOn("ner") = args.entity_multitasks
        /\ Len(nlp.objectives) =
            Len(args.parser_multitasks) + Len(args.entity_multitasks)

\* entity_multitasks='dep' with the pipeline tagger,parser: train() has
\* ended with the error, nothing was trained and nothing was written
C11_Witness ==
    /\ pc = "done" /\ exc = "error"
    /\ args.pipeline = <<"tagger", "parser">>
    /\ args.entity_multitasks = <<"dep">>
    /\ args.parser_multitasks = <<"dep", "tag">>
    /\ ~nlp.begun /\ nlp.ver = 0
    /\ ModelFinal \notin DOMAIN fs /\ ModelName(0) \notin DOMAIN fs

\* an epoch has been started, so that stream and steps are those of an epoch
EpochStarted == nlp.begun /\ args.n_iter > 0 /\ ~(pc = "loop" /\ i = 0)

\* the nlp.update calls of the current epoch, in order
IsUpdate(step) == step.op = "update"
Fed == SelectSeq(steps, IsUpdate)

RECURSIVE Concat(_)
\* the examples of a sequence of calls, one after the other
Concat(calls) ==
    IF calls = <<>> THEN <<>> ELSE Head(calls).batch \o Concat(Tail(calls))

\* the examples of the epoch the partitioner has taken from the stream
Taken ==
    SubSeq(TrainDocs(args.train_docs), 1,
           Len(args.train_docs) - Len(stream.docs))

\* C12: in every epoch the batches passed to nlp.update, one after the
\* other, are the examples taken from the stream so far, in the order of the
\* stream, and the whole stream once the partitioner is exhausted; no batch
\* passed is empty, a yielded empty batch leading to no call, and the calls
\* are the updates made plus at most one call that raised; and every batch
\* but the last has at least as many words as the target drawn for it.
C12_BatchesPartitionStream ==
    EpochStarted =>
        /\ Concat(Fed) = Taken
        /\ stream.done => Concat(Fed) = TrainDocs(args.train_docs)
        /\ \A k \in DOMAIN Fed : Fed[k].batch # <<>>
        /\ \A k \in 1..(Len(Fed) - 1) : Words(Fed[k].batch) >= Fed[k].size
        /\ exc = "none" => Len(Fed) = batches
        /\ batches <= Len(Fed) /\ Len(Fed) <= batches + 1

\* a stream of a one-word and a two-word example under a target of 2: one
\* batch of both examples was passed on, and the empty batch the partitioner
\* yielded at the end of the stream was skipped
C12_Witness ==
    /\ pc = "to_disk" /\ i = 0
    /\ args.train_docs = <<1, 2>> /\ args.batch_from = 2
    /\ Len(Fed) = 1 /\ Len(Fed[1].batch) = 2 /\ Fed[1].size = 2
    /\ sched.sizes = 2 /\ batches = 1

(***************************************************************************)
(* Properties of the epoch and of its checkpoint block.                    *)
(***************************************************************************)
\* the calls of the current epoch that follow its updates
IsCheckpointStep(step) == step.op \notin {"update", "final"}
CheckpointSteps == SelectSeq(steps, IsCheckpointStep)
CheckpointOps == [k \in DOMAIN CheckpointSteps |-> CheckpointSteps[k].op]

\* in the current epoch no update follows a call that is not an update
UpdatesFirst ==
    \A k \in DOMAIN steps :
        steps[k].op = "update" => \A j \in 1..k : steps[j].op = "update"

IsPrefix(a, b) == Len(a) <= Len(b) /\ a = SubSeq(b, 1, Len(a))

\* the order of the checkpoint block as stated, and as it is when the
\* accelerated backend is in use
OnceOps ==
    <<"to_disk", "load", "dev_docs", "evaluate", "write_acc", "write_meta">>
TwiceOps ==
    <<"to_disk", "load", "dev_docs", "evaluate", "load", "dev_docs",
      "evaluate", "write_acc", "write_meta">>

\* the three records of epoch j are in output_path
EpochWritten(j) ==
    /\ ModelName(j) \in DOMAIN fs
    /\ fs[ModelName(j)].vocab.view = "avg"
    /\ fs[ModelName(j)].acc # NoFile
    /\ fs[ModelName(j)].meta # NoFile

\* _collate_best_model has been called
ComposerStarted == pc \in {"copy", "merge"} \/ (pc = "done" /\ bests # <<>>)

\* every epoch before the current one is written; the composer is called
\* after the last epoch and after the final save only
EpochsInOrder ==
    /\ \A j \in 0..(i - 1) : EpochWritten(j)
    /\ (pc = "collate" \/ ComposerStarted) =>
        /\ i = args.n_iter
        /\ ModelFinal \in DOMAIN fs
        /\ fs[ModelFinal].vocab = Params("avg", nlp.ver)
        /\ steps[Len(steps)].op = "final"

\* C13 as stated: in an epoch that completes, the updates come first and
\* are followed by persist, reload, dev set, evaluate, accuracy.json and
\* meta.json, each once; the epochs before the current one are written, and
\* the composer is called after the last epoch and the final save only.
C13_Original ==
    /\ UpdatesFirst
    /\ pc = "leave" => CheckpointOps = OnceOps
    /\ EpochsInOrder

\* C13 as amended: as stated when use_gpu is negative; when use_gpu is 0 or
\* more, reload, dev set and evaluate are made a second time, after the
\* first evaluate and before accuracy.json.  At every moment the calls made
\* so far are a beginning of that order.
C13_StepsInOrder ==
    /\ UpdatesFirst
    /\ IsPrefix(CheckpointOps, IF args.use_gpu < 0 THEN OnceOps ELSE TwiceOps)
    /\ pc = "leave" =>
        CheckpointOps = IF args.use_gpu < 0 THEN OnceOps ELSE TwiceOps
    /\ EpochsInOrder

\* the second epoch of a run with use_gpu = 0 has written its meta.json
\* after two reloads and two evaluations
C13_Witness ==
    /\ pc = "leave" /\ i = 1 /\ args.use_gpu = 0
    /\ Len(Fed) = 1
    /\ CheckpointOps = TwiceOps
    /\ EpochWritten(0) /\ EpochWritten(1)

\* the evaluations of the current epoch, in order
IsEvaluate(step) == step.op = "evaluate"
Evaluations == SelectSeq(steps, IsEvaluate)
IsLoad(step) == step.op = "load"
Loads == SelectSeq(steps, IsLoad)

\* the current epoch has made its last evaluation
Evaluated == pc \in {"write_acc", "write_meta", "leave"}

\* C14: the speed record of every completed epoch has a baseline
\* throughput; it has an accelerated throughput exactly when use_gpu is 0 or
\* more, and None otherwise.  With use_gpu negative an epoch loads and
\* evaluates once.  With use_gpu 0 or more it loads and evaluates under the
\* accelerated backend and then once more under the baseline backend.  What
\* is written to accuracy.json, and to the accuracy of meta.json, is
\* scorer.scores as the last evaluation left it.
C14_ThroughputAndFallback ==
    /\ \A j \in 0..(i - 1) :
        /\ EpochWritten(j)
        /\ EpochSpeed(j).cpu = Some(Wps(DevWords, Elapsed))
        /\ EpochSpeed(j).gpu # None <=> args.use_gpu >= 0
        /\ EpochSpeed(j).gpu # Some(0)
    /\ (Evaluated /\ args.use_gpu < 0) =>
        /\ Len(Evaluations) = 1 /\ Len(Loads) = 1
        /\ Evaluations[1].device = "cpu"
        /\ gpu_wps = None /\ cpu_wps # None
    /\ (Evaluated /\ args.use_gpu >= 0) =>
        /\ Len(Evaluations) = 2 /\ Len(Loads) = 2
        /\ Evaluations[1].device = "gpu" /\ Loads[1].device = "gpu"
        /\ Evaluations[2].device = "cpu" /\ Loads[2].device = "cpu"
        /\ gpu_wps # None /\ cpu_wps # None
    /\ pc \in {"write_meta", "leave"} => fs[ModelName(i)].acc = scorer
    /\ pc = "leave" => Content(fs[ModelName(i)].meta).accuracy = scorer

\* a run with use_gpu = 0 has completed its first epoch and evaluated the
\* second one under both backends; the first epoch's speed record has both
\* values
C14_Witness ==
    /\ args.use_gpu = 0 /\ i = 1 /\ pc = "write_meta"
    /\ Len(Evaluations) = 2 /\ Evaluations[2].device = "cpu"
    /\ EpochSpeed(0).gpu # None /\ EpochSpeed(0).cpu # None
    /\ fs[ModelName(1)].acc = scorer

\* the backend begin_training selected
StartupDevice == IF args.use_gpu >= 0 THEN "gpu" ELSE "cpu"

\* C15: the baseline backend is the active one inside the scope of lines
\* 159-166 and nowhere else.  Where an update or a save is about to be made,
\* and at every update, save to model<i> and final save that was made in the
\* current epoch, the active backend is the one selected at start-up, also
\* after an exception raised inside the scope.
C15_DeviceScoped ==
    nlp.begun =>
        /\ InDeviceScope(pc) => device = "cpu"
        /\ ~InDeviceScope(pc) => device = StartupDevice
        /\ pc \in {"batch", "to_disk", "finally"} => device = StartupDevice
        /\ \A k \in DOMAIN steps :
            steps[k].op \in {"update", "to_disk", "final"} =>
                steps[k].device = StartupDevice

\* in a run with use_gpu = 0 the evaluation under the baseline backend
\* raised in the second epoch, and the final save was made under the
\* accelerated backend
C15_Witness ==
    /\ args.use_gpu = 0 /\ pc = "done" /\ exc = "error" /\ i = 1
    /\ Len(Loads) = 2 /\ Loads[2].device = "cpu"
    /\ Len(Evaluations) = 1
    /\ steps[Len(steps)] = StepOn("final", "gpu")

(***************************************************************************)
(* Properties of the ranking of locations.                                 *)
(***************************************************************************)
\* the name s sorts before the name t: at the first position where they
\* differ s has the smaller character, or s ends there
NameBefore(s, t) ==
    \E k \in 1..Len(t) :
        /\ \A j \in 1..(k - 1) : j <= Len(s) /\ s[j] = t[j]
        /\ k > Len(s) \/ Ord[s[k]] < Ord[t[k]]

\* C16: the location _find_best returns for a component has a ranking
\* tuple no candidate exceeds, and every other candidate with the same
\* tuple has a name that sorts before the winner's; so of model9 and
\* model10 with equal tuples model10 is never the winner.
C16_TieGoesToGreatestName ==
    (pc = "copy" /\ EpochDirs # {}) =>
        \A c \in Range(args.pipeline) :
            LET best == Content(bests[c])
            IN  /\ \A d \in EpochDirs :
                    ~LexBelow(EpochTuple(best, c), EpochTuple(d, c))
                /\ \A d \in EpochDirs \ {best} :
                    EpochTuple(d, c) = EpochTuple(best, c)
                        => NameBefore(d, best)
                /\ ({ModelName(9), ModelName(10)} \subseteq EpochDirs
                    /\ EpochTuple(ModelName(9), c)
                        = EpochTuple(ModelName(10), c))
                    => best # ModelName(10)

\* model0, model9 and model10 have the same parser tuple, and model9 is the
\* parser's winner
C16_Witness ==
    /\ pc = "copy" /\ args.n_iter = 1
    /\ "parser" \in DOMAIN bests
    /\ {ModelName(9), ModelName(10)} \subseteq EpochDirs
    /\ EpochTuple(ModelName(0), "parser") = EpochTuple(ModelName(9), "parser")
    /\ EpochTuple(ModelName(10), "parser") = EpochTuple(ModelName(9), "parser")
    /\ bests["parser"] = Some(ModelName(9))

(***************************************************************************)
(* Properties of the schedules.                                            *)
(***************************************************************************)
\* this step calls nlp.update
UpdateCalled ==
    /\ Len(steps') = Len(steps) + 1
    /\ steps'[Len(steps')].op = "update"

\* C17: no step takes a schedule back, in an epoch or between epochs: a
\* step leaves the number of values drawn from a schedule or adds one.  A
\* value is drawn from dropout_rates in exactly the steps that call
\* nlp.update, so a step that skips an empty batch draws a batch size and no
\* dropout value; the target of a batch is the value of batch_sizes at its
\* own count of draws whatever was drawn from dropout_rates; and the
\* dropout values drawn are as many as the updates made, plus one when a
\* call of nlp.update raised.
C17_SchedulesAdvance ==
    [][/\ sched'.sizes \in {sched.sizes, sched.sizes + 1}
       /\ sched'.drops \in {sched.drops, sched.drops + 1}
       /\ sched'.drops = sched.drops + 1 <=> UpdateCalled
       /\ sched'.sizes = sched.sizes + 1 => pc = "batch"
       /\ UpdateCalled =>
            /\ sched'.sizes = sched.sizes + 1
            /\ steps'[Len(steps')].size = BatchSize(sched.sizes)
       /\ (sched'.sizes = sched.sizes + 1 /\ ~UpdateCalled) =>
            /\ nlp' = nlp /\ steps' = steps
            /\ stream.docs = <<>> /\ stream'.done
       /\ sched'.drops - nlp'.ver \in {0, 1}
       /\ exc' = "none" => sched'.drops = nlp'.ver
    ]_vars

\* the second epoch of a run whose stream is one example: the first epoch
\* drew two batch sizes, for its batch and for the empty batch it skipped,
\* and one dropout value; the batch of the second epoch got the third value
\* of batch_sizes
C17_Witness ==
    /\ i = 1 /\ pc = "batch" /\ stream.done
    /\ args.train_docs = <<1>>
    /\ args.batch_from = 1 /\ args.batch_compound = 2
    /\ Len(Fed) = 1 /\ Fed[1].size = 4
    /\ sched = [sizes |-> 3, drops |-> 2]

(***************************************************************************)
(* Properties of what is written where.                                    *)
(***************************************************************************)
\* this step changes nothing in output_path but the directory d
WritesOnly(d) ==
    \A e \in (DOMAIN fs \cup DOMAIN fs') \ {d} :
        e \in DOMAIN fs /\ e \in DOMAIN fs' /\ fs'[e] = fs[e]

\* the epochs whose three records are written
WrittenEpochs == 0..(i - 1) \cup (IF pc = "leave" THEN {i} ELSE {})

\* C18: no step changes or removes the location of an epoch whose
\* snapshot, accuracy.json and meta.json are written.  A step of epoch i
\* writes to model<i> only, and leaves its snapshot as persisted and its
\* accuracy.json as written; the final save writes to model-final only; the
\* composer writes to model-best only.
C18_EpochRecordsKept ==
    [][/\ \A j \in WrittenEpochs :
            /\ ModelName(j) \in DOMAIN fs'
            /\ fs'[ModelName(j)] = fs[ModelName(j)]
       /\ pc \in {"batch", "to_disk", "load", "dev_docs", "evaluate",
                  "cpu_load", "cpu_dev_docs", "cpu_evaluate", "write_acc",
                  "write_meta", "leave"} => WritesOnly(ModelName(i))
       /\ pc \in {"load", "dev_docs", "evaluate", "cpu_load", "cpu_dev_docs",
                  "cpu_evaluate", "write_acc", "write_meta"} =>
            /\ fs'[ModelName(i)].comps = fs[ModelName(i)].comps
            /\ fs'[ModelName(i)].vocab = fs[ModelName(i)].vocab
       /\ pc = "write_meta" => fs'[ModelName(i)].acc = fs[ModelName(i)].acc
       /\ pc \in {"start", "setup", "loop", "done"} => fs' = fs
       /\ pc = "finally" => WritesOnly(ModelFinal)
       /\ pc \in {"collate", "copy", "merge"} => WritesOnly(ModelBest)
    ]_vars

\* the composer has returned after two epochs and has taken a component
\* from each; both epoch locations hold the records the epochs wrote
C18_Witness ==
    /\ Composed /\ args.n_iter = 2
    /\ args.pipeline = <<"tagger", "textcat">>
    /\ bests["tagger"] = Some(ModelName(0))
    /\ bests["textcat"] = Some(ModelName(1))
    /\ EpochWritten(0) /\ EpochWritten(1)
    /\ fs[ModelName(0)].comps =
        Pipes(args.pipeline, Params("avg", Len(args.train_docs)))
    /\ Content(fs[ModelName(0)].meta).name = Some(ModelName(0))

(***************************************************************************)
(* Properties of the composer and of what output_path held before.         *)
(***************************************************************************)
\* the accuracy record of the component's winner lacks one of the metrics
\* the component is ranked on
WinnerLacks(c) ==
    /\ bests[c] # None
    /\ \E m \in Range(RankingTuple(c)) :
        m \notin DOMAIN Content(fs[Content(bests[c])].acc)

\* C19 as stated: when the composer has ended after at least one epoch and
\* the accuracy record of some component's winner lacks a metric of the
\* component's ranking tuple, the composer has returned, model-best/meta.json
\* is written, and the metrics it holds for that component are the winner's,
\* the missing one as 0.
C19_MissingMetricIsZero ==
    (pc = "done" /\ bests # <<>> /\ args.n_iter > 0
        /\ \E c \in DOMAIN bests : WinnerLacks(c)) =>
        /\ exc = "none"
        /\ fs[ModelBest].meta # NoFile
        /\ \A c \in DOMAIN bests :
            WinnerLacks(c) =>
                Projected(Content(Content(fs[ModelBest].meta).accuracy), c)
                    = EpochTuple(Content(bests[c]), c)

\* the locations the epochs of this run wrote
RunEpochs == {ModelName(j) : j \in 0..(args.n_iter - 1)}

\* C20 as stated: the directories _find_best ranks are locations of epochs
\* of this run, and so is every winner.
C20_OnlyRunEpochsRanked ==
    /\ pc = "collate" => Candidates(fs) \subseteq RunEpochs
    /\ bests # <<>> =>
        \A c \in DOMAIN bests :
            bests[c] # None => Content(bests[c]) \in RunEpochs

====
